---- MODULE Spec2Model ----
(***************************************************************************)
(* Model of Stock_Analysis/streamlit_app.py: the indicator computation     *)
(* (rolling means, calculate_rsi), the "Start Analysis" handler with the   *)
(* st.session_state it writes, and the dashboard that every script run     *)
(* renders from the stored result.                                         *)
(*                                                                         *)
(* Numbers.  A float is a record [k, n, d]: k = "num" is the rational n/d  *)
(* in lowest terms (d > 0), k = "nan" is not-a-number (pandas' missing     *)
(* value and the result of 0/0 are this same value), k = "inf" is an       *)
(* infinity of sign n.  Arithmetic is exact; the sign of a zero is not     *)
(* kept (x/0 takes the sign of x), which changes no result below because   *)
(* 100/(1 + inf) is a zero for either sign of the infinity.                *)
(*                                                                         *)
(* Indices.  The code counts rows from 0, sequences here count from 1:     *)
(* row i of the code is element i+1 of the sequence.                       *)
(***************************************************************************)
EXTENDS Integers, Sequences, FiniteSets, TLC

(* ------------------------------ bounds -------------------------------- *)
\* longest exhaustively enumerated fetched series, and its largest close
MaxLen == 2
MaxPrice == 2
\* inputs of the calculate_rsi function specification
RsiMaxLen == 4
RsiMaxPrice == 4
RsiMaxPeriods == 3

(* ------------------------- program constants -------------------------- *)
MinPeriod == 1
DefaultPeriods == 14
OverboughtLevel == 70
OversoldLevel == 30

(* ------------------------------ floats -------------------------------- *)
Abs(a) == IF a < 0 THEN -a ELSE a

RECURSIVE GCD(_, _)
GCD(a, b) == IF b = 0 THEN a ELSE GCD(b, a % b)

\* the rational n/d, d > 0, in lowest terms
Norm(n, d) ==
    IF d = 1 THEN [k |-> "num", n |-> n, d |-> 1]
    ELSE LET g == GCD(Abs(n), d)
         IN  [k |-> "num", n |-> n \div g, d |-> d \div g]

FNum(a) == [k |-> "num", n |-> a, d |-> 1]
NaN == [k |-> "nan", n |-> 0, d |-> 1]
Inf(s) == [k |-> "inf", n |-> s, d |-> 1]

IsNaN(x) == x.k = "nan"
IsInf(x) == x.k = "inf"
IsNum(x) == x.k = "num"

FNeg(x) ==
    IF IsNaN(x) THEN NaN
    ELSE [x EXCEPT !.n = -x.n]

FAdd(x, y) ==
    IF IsNaN(x) \/ IsNaN(y) THEN NaN
    ELSE IF IsInf(x) THEN (IF IsInf(y) /\ y.n # x.n THEN NaN ELSE x)
    ELSE IF IsInf(y) THEN y
    ELSE Norm(x.n * y.d + y.n * x.d, x.d * y.d)

FSub(x, y) == FAdd(x, FNeg(y))

FDiv(x, y) ==
    IF IsNaN(x) \/ IsNaN(y) THEN NaN
    ELSE IF IsInf(x) THEN (IF IsInf(y) THEN NaN
                           ELSE Inf(IF y.n < 0 THEN -x.n ELSE x.n))
    ELSE IF IsInf(y) THEN FNum(0)
    ELSE IF y.n = 0 THEN (IF x.n = 0 THEN NaN
                          ELSE Inf(IF x.n < 0 THEN -1 ELSE 1))
    ELSE IF y.n < 0 THEN Norm(-(x.n * y.d), x.d * (-y.n))
    ELSE Norm(x.n * y.d, x.d * y.n)

\* x > y and x < y; every comparison with not-a-number is false
FGt(x, y) ==
    IF IsNaN(x) \/ IsNaN(y) THEN FALSE
    ELSE IF IsInf(x) THEN x.n = 1 /\ ~(IsInf(y) /\ y.n = 1)
    ELSE IF IsInf(y) THEN y.n = -1
    ELSE x.n * y.d > y.n * x.d

FLt(x, y) == FGt(y, x)

(* ----------------------------- series --------------------------------- *)
\* the Close column as floats
AsFloats(close) == [i \in 1..Len(close) |-> FNum(close[i])]

\* Series.diff(): the first row has no predecessor and is not-a-number
Diff(x) ==
    [i \in 1..Len(x) |-> IF i = 1 THEN NaN ELSE FSub(x[i], x[i - 1])]

\* Series.rolling(window): the running sum and the count of observations
\* after each row, extended one row at a time: row i enters, row i - window
\* leaves, not-a-number rows are not observations.  acc holds the states
\* after rows 1..Len(acc)
RECURSIVE RollStates(_, _, _)
RollStates(x, window, acc) ==
    IF Len(acc) >= Len(x) THEN acc
    ELSE LET i     == Len(acc) + 1
             prev  == IF i = 1 THEN [sum |-> FNum(0), nobs |-> 0] ELSE acc[i - 1]
             added == IF IsNaN(x[i]) THEN prev
                      ELSE [sum |-> FAdd(prev.sum, x[i]), nobs |-> prev.nobs + 1]
             state == IF i > window /\ ~IsNaN(x[i - window])
                      THEN [sum  |-> FSub(added.sum, x[i - window]),
                            nobs |-> added.nobs - 1]
                      ELSE added
         IN  RollStates(x, window, Append(acc, state))

\* the mean of each window from the rolling states: not-a-number until
\* minp observations are in the window
MeanOf(states, minp) ==
    [i \in 1..Len(states) |->
        IF states[i].nobs >= minp
        THEN FDiv(states[i].sum, FNum(states[i].nobs))
        ELSE NaN]

\* a mean that keeps one row too many in the window
RollingMeanLate(x, window) == MeanOf(RollStates(x, window + 1, <<>>), window + 1)

\* Series.rolling(window).mean(): min_periods is the window length
RollingMean(x, window) == MeanOf(RollStates(x, window, <<>>), window)

\* delta.where(delta > 0, 0) and delta.where(delta < 0, 0): a row where the
\* condition is false, a not-a-number row included, becomes 0
WherePositive(delta) ==
    [i \in 1..Len(delta) |-> IF FGt(delta[i], FNum(0)) THEN delta[i] ELSE FNum(0)]

WhereNegative(delta) ==
    [i \in 1..Len(delta) |-> IF FLt(delta[i], FNum(0)) THEN delta[i] ELSE FNum(0)]

NegSeries(x) == [i \in 1..Len(x) |-> FNeg(x[i])]

\* rs = gain / loss and 100 - (100 / (1 + rs)), row by row
RsiOf(gain, loss) ==
    [i \in 1..Len(gain) |->
        FSub(FNum(100), FDiv(FNum(100), FAdd(FNum(1), FDiv(gain[i], loss[i]))))]

GainOf(delta, periods) == RollingMean(WherePositive(delta), periods)
LossOf(delta, periods) == RollingMean(NegSeries(WhereNegative(delta)), periods)

\* calculate_rsi with gains and losses exchanged
calculate_rsi_swapped(close, periods) ==
    LET delta == Diff(AsFloats(close))
    IN  RsiOf(LossOf(delta, periods), GainOf(delta, periods))

calculate_rsi(close, periods) ==
    LET delta == Diff(AsFloats(close))
    IN  RsiOf(GainOf(delta, periods), LossOf(delta, periods))

\* the handler's table data_new: the Close column and the three indicator
\* columns added to it (Date and Volume are carried along untouched)
Indicators(close, short, long) ==
    [Close    |-> close,
     MA_Short |-> RollingMean(AsFloats(close), short),
     MA_Long  |-> RollingMean(AsFloats(close), long),
     RSI      |-> calculate_rsi(close, DefaultPeriods)]

(* --------------------------- classification --------------------------- *)
\* a trend that also reads equal averages as a rise
trend_tie_rise(ma_short_value, ma_long_value) ==
    IF ~FLt(ma_short_value, ma_long_value) THEN "Rise" ELSE "Drop"

trend(ma_short_value, ma_long_value) ==
    IF FGt(ma_short_value, ma_long_value) THEN "Rise" ELSE "Drop"

\* a status whose bands include their thresholds
rsi_status_inclusive(latest_rsi) ==
    IF ~FLt(latest_rsi, FNum(OverboughtLevel)) THEN "Overbought"
    ELSE IF ~FGt(latest_rsi, FNum(OversoldLevel)) THEN "Oversold"
    ELSE "Normal"

rsi_status(latest_rsi) ==
    IF FGt(latest_rsi, FNum(OverboughtLevel)) THEN "Overbought"
    ELSE IF FLt(latest_rsi, FNum(OversoldLevel)) THEN "Oversold"
    ELSE "Normal"

(* ------------------------------ state --------------------------------- *)
VARIABLES
    ma_short,       \* sidebar widget "Short MA Period"
    ma_long,        \* sidebar widget "Long MA Period"
    session_state,  \* st.session_state: a dictionary, with key "data" or empty
    message,        \* the st.error text of the latest script run ("" if none)
    dashboard,      \* what the latest script run rendered below the title
    run,            \* history: what the latest script run was
    computed,       \* history: the latest run computed the indicator columns
    lastOk,         \* history: inputs of the most recent request that stored
    pc,             \* calculate_rsi specification: "idle", "input" or "done"
    close_in,       \* calculate_rsi specification: the Close column
    periods_in,     \* calculate_rsi specification: the look-back
    rsi_out         \* calculate_rsi specification: the returned series

appVars == <<ma_short, ma_long, session_state, message, dashboard, run,
             computed, lastOk>>
rsiVars == <<pc, close_in, periods_in, rsi_out>>
vars == <<ma_short, ma_long, session_state, message, dashboard, run,
          computed, lastOk, pc, close_in, periods_in, rsi_out>>

NoDataMessage == "No data found. Please enter a valid symbol."
ErrorMessage == "An error occurred"

\* the values the two number_input widgets start with
DefaultShort == 20
DefaultLong == 50

\* the widget values explored: the smallest period each widget pair can
\* differ on, and the default, which is longer than every fetched series
ShortPeriods == {MinPeriod, DefaultShort}
LongPeriods == {MinPeriod + 1, DefaultLong}

\* every series of at most MaxLen closes in 1..MaxPrice
ShortSeries == UNION {[1..n -> 1..MaxPrice] : n \in 1..MaxLen}

\* a series of DefaultPeriods + 1 closes: `up` sessions rising by a,
\* then sessions falling by b
Saw(up, a, b) ==
    [i \in 1..(DefaultPeriods + 1) |->
        1 + DefaultPeriods * b
          + a * (IF i - 1 < up THEN i - 1 ELSE up)
          - b * (IF i - 1 > up THEN i - 1 - up ELSE 0)]

\* flat, rising, falling, and two that end on the thresholds 70 and 30
LongSeries ==
    { Saw(0, 0, 0), Saw(DefaultPeriods, 1, 0), Saw(0, 0, 1),
      Saw(7, 7, 3), Saw(7, 3, 7) }

\* the non-empty tables yf.download can return
FetchedSeries == ShortSeries \cup LongSeries

NotShown ==
    [shown |-> FALSE, latest_price |-> NaN, ma_short_value |-> NaN,
     ma_long_value |-> NaN, trend |-> "", latest_rsi |-> NaN, rsi_status |-> ""]

\* the Technical Analysis Dashboard: rendered iff 'data' in st.session_state
Render(ss) ==
    IF "data" \in DOMAIN ss
    THEN LET data_new == ss["data"]
             last == Len(data_new.Close)
         IN  [shown          |-> TRUE,
              latest_price   |-> FNum(data_new.Close[last]),
              ma_short_value |-> data_new.MA_Short[last],
              ma_long_value  |-> data_new.MA_Long[last],
              trend          |-> trend(data_new.MA_Short[last], data_new.MA_Long[last]),
              latest_rsi     |-> data_new.RSI[last],
              rsi_status     |-> rsi_status(data_new.RSI[last])]
    ELSE NotShown

RsiIdle ==
    /\ pc = "idle"
    /\ close_in = <<>>
    /\ periods_in = 0
    /\ rsi_out = <<>>

\* the first script run of a session: default widgets, nothing stored
Init ==
    /\ ma_short = DefaultShort
    /\ ma_long = DefaultLong
    /\ session_state = <<>>
    /\ message = ""
    /\ dashboard = Render(<<>>)
    /\ run = "first"
    /\ computed = FALSE
    /\ lastOk = <<>>
    /\ RsiIdle

(* ----------------------------- script runs ---------------------------- *)
\* a widget is edited: the script reruns with the button not pressed
Rerun ==
    \E s \in ShortPeriods, l \in LongPeriods :
        /\ ma_short' = s
        /\ ma_long' = l
        /\ message' = ""
        /\ dashboard' = Render(session_state)
        /\ run' = "rerun"
        /\ computed' = FALSE
        /\ UNCHANGED <<session_state, lastOk>>
        /\ UNCHANGED rsiVars

\* a failed request that also drops what was stored
StartAnalysisRaiseClears ==
    /\ session_state' = <<>>
    /\ message' = ErrorMessage
    /\ dashboard' = NotShown
    /\ run' = "raise"
    /\ computed' = FALSE
    /\ UNCHANGED <<ma_short, ma_long, lastOk>>
    /\ UNCHANGED rsiVars

\* Start Analysis, yf.download raises: the except branch reports it
StartAnalysisRaise ==
    /\ message' = ErrorMessage
    /\ dashboard' = Render(session_state)
    /\ run' = "raise"
    /\ computed' = FALSE
    /\ UNCHANGED <<ma_short, ma_long, session_state, lastOk>>
    /\ UNCHANGED rsiVars

\* an empty fetch that is not told apart: the columns are computed and stored
StartAnalysisNoDataStored ==
    /\ session_state' = ("data" :> Indicators(<<>>, ma_short, ma_long))
    /\ message' = ""
    /\ dashboard' = NotShown
    /\ run' = "empty"
    /\ computed' = TRUE
    /\ UNCHANGED <<ma_short, ma_long, lastOk>>
    /\ UNCHANGED rsiVars

\* Start Analysis, data.empty
StartAnalysisNoData ==
    /\ message' = NoDataMessage
    /\ dashboard' = Render(session_state)
    /\ run' = "empty"
    /\ computed' = FALSE
    /\ UNCHANGED <<ma_short, ma_long, session_state, lastOk>>
    /\ UNCHANGED rsiVars

\* Start Analysis, a non-empty fetch: compute the columns and store them
StartAnalysisOk ==
    \E close \in FetchedSeries :
        /\ session_state' = ("data" :> Indicators(close, ma_short, ma_long))
        /\ message' = ""
        /\ dashboard' = Render(session_state')
        /\ run' = "ok"
        /\ computed' = TRUE
        /\ lastOk' = <<[close |-> close, short |-> ma_short, long |-> ma_long]>>
        /\ UNCHANGED <<ma_short, ma_long>>
        /\ UNCHANGED rsiVars

Next ==
    \/ Rerun
    \/ StartAnalysisRaise
    \/ StartAnalysisNoData
    \/ StartAnalysisOk

Spec == Init /\ [][Next]_vars

(* ------------------- calculate_rsi as a function ---------------------- *)
RsiSeries == UNION {[1..n -> 1..RsiMaxPrice] : n \in 1..RsiMaxLen}

AppIdle ==
    /\ ma_short = DefaultShort
    /\ ma_long = DefaultLong
    /\ session_state = <<>>
    /\ message = ""
    /\ dashboard = NotShown
    /\ run = "first"
    /\ computed = FALSE
    /\ lastOk = <<>>

InitRsi ==
    /\ AppIdle
    /\ pc = "input"
    /\ close_in \in RsiSeries
    /\ periods_in \in 1..RsiMaxPeriods
    /\ rsi_out = <<>>

CallRsi ==
    /\ pc = "input"
    /\ rsi_out' = calculate_rsi(close_in, periods_in)
    /\ pc' = "done"
    /\ UNCHANGED <<close_in, periods_in>>
    /\ UNCHANGED appVars

NextRsi == CallRsi

SpecRsi == InitRsi /\ [][NextRsi]_vars

(* ============================ properties ============================== *)
RECURSIVE SumRange(_, _, _)
SumRange(close, lo, hi) ==
    IF lo > hi THEN 0 ELSE close[hi] + SumRange(close, lo, hi - 1)

Stored == "data" \in DOMAIN session_state

\* column col is the moving average of close over windows of p rows: as long
\* as close, not-a-number on the first p - 1 rows (all rows when p exceeds
\* the length), and from row p on the quotient of the window's sum by p
IsMovingAverage(col, close, p) ==
    LET N == Len(close)
    IN  /\ Len(col) = N
        /\ \A i \in 1..N :
              /\ i < p => IsNaN(col[i])
              /\ i >= p => /\ IsNum(col[i])
                           /\ col[i].n * p = col[i].d * SumRange(close, i - p + 1, i)
        /\ Cardinality({i \in 1..N : IsNaN(col[i])}) = (IF p - 1 < N THEN p - 1 ELSE N)
        /\ Cardinality({i \in 1..N : IsNum(col[i])}) = (IF p <= N THEN N - p + 1 ELSE 0)

\* C1: the MA_Short and MA_Long columns a request stores are the moving
\* averages of the fetched closes over the two widget periods: same length,
\* no value on the first p - 1 rows, the arithmetic mean of the last p closes
\* from then on, and all no-value without an error when p exceeds the length.
C1_MovingAverage ==
    Stored =>
        /\ Len(lastOk) = 1
        /\ session_state["data"].Close = lastOk[1].close
        /\ IsMovingAverage(session_state["data"].MA_Short, lastOk[1].close, lastOk[1].short)
        /\ IsMovingAverage(session_state["data"].MA_Long, lastOk[1].close, lastOk[1].long)
        /\ run = "ok" => message = ""

\* a stored series longer than the short period and shorter than the long one
C1_Witness ==
    /\ Stored
    /\ run = "ok"
    /\ Len(lastOk) = 1
    /\ Len(lastOk[1].close) = MaxLen
    /\ lastOk[1].short = MinPeriod
    /\ lastOk[1].long = DefaultLong
    /\ IsNum(dashboard.ma_short_value)
    /\ IsNaN(dashboard.ma_long_value)

\* C2: every entry calculate_rsi returns is the no-value marker of a warm-up
\* row (rows 0..periods-1 of the code) or a finite number in [0, 100]; it is
\* never infinite and never not-a-number past the warm-up.
C2_RsiBounded ==
    pc = "done" =>
        \A i \in 1..Len(rsi_out) :
            /\ ~IsInf(rsi_out[i])
            /\ IsNaN(rsi_out[i]) => i <= periods_in
            /\ IsNum(rsi_out[i]) => /\ rsi_out[i].n >= 0
                                    /\ rsi_out[i].n <= 100 * rsi_out[i].d

Flat(close) == \A i \in 1..Len(close) : close[i] = close[1]
StrictlyIncreasing(close) == \A i \in 2..Len(close) : close[i] > close[i - 1]
StrictlyDecreasing(close) == \A i \in 2..Len(close) : close[i] < close[i - 1]

\* C3: on a flat series calculate_rsi is the number 50 at every row
\* i >= periods of the code.
C3_FlatIsFifty ==
    (pc = "done" /\ Flat(close_in)) =>
        \A i \in 1..Len(rsi_out) : i > periods_in => rsi_out[i] = FNum(50)

\* C4: on a strictly increasing series calculate_rsi is exactly 100 wherever
\* it is a number, on a strictly decreasing one exactly 0; it is a number at
\* every row i >= periods of the code and no entry is infinite.
C4_Monotone ==
    pc = "done" =>
        /\ StrictlyIncreasing(close_in) =>
              \A i \in 1..Len(rsi_out) :
                  /\ ~IsInf(rsi_out[i])
                  /\ IsNum(rsi_out[i]) => rsi_out[i] = FNum(100)
                  /\ i > periods_in => IsNum(rsi_out[i])
        /\ StrictlyDecreasing(close_in) =>
              \A i \in 1..Len(rsi_out) :
                  /\ ~IsInf(rsi_out[i])
                  /\ IsNum(rsi_out[i]) => rsi_out[i] = FNum(0)
                  /\ i > periods_in => IsNum(rsi_out[i])

\* a rising series with rows past the warm-up, where the average loss is 0
C4_Witness ==
    /\ pc = "done"
    /\ Len(close_in) = RsiMaxLen
    /\ StrictlyIncreasing(close_in)
    /\ periods_in = RsiMaxPeriods
    /\ rsi_out[RsiMaxLen] = FNum(100)

\* C5: calculate_rsi is the no-value marker at every row i < periods of the
\* code (elements 1..periods here): the first difference is in no window.
C5_WarmUp ==
    pc = "done" =>
        \A i \in 1..Len(rsi_out) : i <= periods_in => IsNaN(rsi_out[i])

\* C6: with both latest moving averages defined the trend label is Rise
\* exactly when the short one is greater, and Drop otherwise, ties included.
C6_Trend ==
    (dashboard.shown /\ IsNum(dashboard.ma_short_value) /\ IsNum(dashboard.ma_long_value)) =>
        LET s == dashboard.ma_short_value
            l == dashboard.ma_long_value
        IN  /\ dashboard.trend \in {"Rise", "Drop"}
            /\ dashboard.trend = "Rise" <=> s.n * l.d > l.n * s.d
            /\ s.n * l.d = l.n * s.d => dashboard.trend = "Drop"

\* equal latest averages, labelled Drop
C6_Witness ==
    /\ dashboard.shown
    /\ IsNum(dashboard.ma_short_value)
    /\ dashboard.ma_short_value = dashboard.ma_long_value
    /\ dashboard.trend = "Drop"

\* C7: with the latest RSI defined the status is Overbought exactly when it
\* is above 70, Oversold exactly when it is below 30 and Normal otherwise, so
\* 70 and 30 themselves are Normal; one of the three labels is always shown.
C7_RsiStatus ==
    (dashboard.shown /\ IsNum(dashboard.latest_rsi)) =>
        LET r == dashboard.latest_rsi
        IN  /\ dashboard.rsi_status \in {"Overbought", "Oversold", "Normal"}
            /\ dashboard.rsi_status = "Overbought" <=> r.n > OverboughtLevel * r.d
            /\ dashboard.rsi_status = "Oversold" <=> r.n < OversoldLevel * r.d
            /\ r \in {FNum(OverboughtLevel), FNum(OversoldLevel)} =>
                   dashboard.rsi_status = "Normal"

\* a latest RSI of exactly 70, labelled Normal
C7_Witness ==
    /\ dashboard.shown
    /\ dashboard.latest_rsi = FNum(OverboughtLevel)
    /\ dashboard.rsi_status = "Normal"

\* C8: when a latest moving average or the latest RSI is the no-value marker
\* the dashboard shows no trend label, respectively no status label.
C8_NoLabelWithoutValue ==
    dashboard.shown =>
        /\ (IsNaN(dashboard.ma_short_value) \/ IsNaN(dashboard.ma_long_value)) =>
               dashboard.trend \notin {"Rise", "Drop"}
        /\ IsNaN(dashboard.latest_rsi) =>
               dashboard.rsi_status \notin {"Overbought", "Oversold", "Normal"}

\* C9: a request whose fetch is empty reports the no-data message, computes
\* no indicator column and leaves the stored result as it was; no table
\* without rows is ever stored.
C9_NoData ==
    /\ [][run' = "empty" =>
            /\ message' = NoDataMessage
            /\ ~computed'
            /\ session_state' = session_state]_vars
    /\ [](Stored => Len(session_state["data"].Close) > 0)

\* an empty fetch as the first request of a session
C9_Witness ==
    /\ run = "empty"
    /\ message = NoDataMessage
    /\ ~Stored
    /\ ~dashboard.shown

\* C10: st.session_state.data changes only in a request that fetched rows
\* and did not raise; it is absent until such a request and is the result of
\* the most recent one afterwards; every run renders the dashboard exactly
\* when a result is stored, from that result, so after a failed request the
\* earlier result is shown beside the error message.
C10_StoredResult ==
    /\ [][session_state' # session_state => run' = "ok"]_vars
    /\ [](Stored <=> lastOk # <<>>)
    /\ [](Stored => session_state["data"] =
                        Indicators(lastOk[1].close, lastOk[1].short, lastOk[1].long))
    /\ [](dashboard.shown <=> Stored)
    /\ [](dashboard = Render(session_state))
    /\ [](run \in {"empty", "raise"} => message # "")

\* a failed request after a successful one, the earlier result still shown
C10_Witness ==
    /\ run = "raise"
    /\ message = ErrorMessage
    /\ lastOk # <<>>
    /\ dashboard.shown
    /\ IsNum(dashboard.latest_rsi)

====
